---- MODULE Spec2Model ----
(***************************************************************************)
(* Transcription relay of rizkyriyadi/vibe-interview.                      *)
(*                                                                         *)
(* The repository holds three variants of the Socket.IO server and two of  *)
(* the browser client:                                                     *)
(*   src/unnamed/part_000 + src/utils/deepgram.js  live-streaming server   *)
(*   src/server.js                                 batch (Whisper) server  *)
(*   src/unnamed/part_002                          relay-only server       *)
(*   src/public/app.js                             Whisper client with the *)
(*                                                 Web Speech fallback     *)
(*   src/public/app_with_deepgram.js               Web Speech client       *)
(*                                                                         *)
(* SpecDG models the live-streaming server: the socket handlers of         *)
(* part_000 and the DeepgramService they call.  The provider SDK and the   *)
(* browser are the environment: their events (open, error, close, Results, *)
(* an exception out of listen.live / send / finish) are inputs.            *)
(* SpecRelay models the batch server with clients that send it arbitrary   *)
(* messages, SpecWhisper the Whisper client app.js together with the batch *)
(* server.  SpecMusic models the audio monitor of app.js, SpecFilter the   *)
(* monitor next to the Web Speech recogniser, and SpecLexical applies the  *)
(* text filters isLikelyMusic and detectSpeaker to generated transcripts.  *)
(* SpecEcho models app.js served by the live-streaming server, SpecRestart *)
(* the monitor over several screen shares, SpecSpeech the onresult handler *)
(* of app_with_deepgram.js.                                                *)
(***************************************************************************)
EXTENDS Integers, Sequences, FiniteSets, Bags, TLC

\* ------------------------------------------------------------------ bounds
MaxConn == 2        \* 'start-screen-share' requests handled, each creating a connection
MaxChunks == 1      \* 'audio-data' messages per socket
MaxResults == 1     \* 'Results' events delivered by the provider SDK

Sockets == {"s1", "s2"}
\* s1 shares its screen; s2 only listens (ARCHITECTURE.md, "Integration via API")
Sharers == {"s1"}
ConnIds == 1..MaxConn
NoConn == 0

\* WebSocket readyState values read by sendAudioData (deepgram.js:105)
ABSENT == -1   \* no connection object: listen.live() threw, or not yet requested
CONNECTING == 0
OPEN == 1
CLOSED == 3

VARIABLES
    sockets,       \* io.sockets.sockets: id -> "new" | "connected" | "disconnected"
    inbox,         \* per socket, the bag of events the server emitted to it
    connections,   \* DeepgramService.connections: socket id -> connection (NoConn: no entry)
    live,          \* provider connections created so far, by id
    nLive,         \* createLiveConnection calls so far
    nAudio,        \* per socket, 'audio-data' messages handled
    nResults,      \* 'Results' events handled
    \* the browser client of socket s1 (app.js, class ScreenAudioToText)
    useWhisper, whisperReady, isRecording,
    recognition,   \* "none" (unsupported browser) | "idle" | "running"
    mediaRecorder, \* "null" | "inactive" | "recording"
    mediaStream,   \* TRUE: a captured stream is held
    hasAudio,      \* the captured stream has an audio track
    pending,       \* startRecording calls awaiting checkServerHealth
    interim,       \* the interim display: NoField, or the text shown
    transcriptArea, \* the children of the transcript element, in document order
    transcriptions,
    statusEvents,  \* the provider status events the client has handled, in order
    errorSeen,     \* a 'whisper-error' was handled in the running session
    audioLevelHistory, suppressTranscription,
    monitoring,    \* the monitor loops that have a frame due
    nSample,
    probe,         \* the text last classified, with the answers it got
    audioChunks,   \* the chunks the recorder handed over, as app.js keeps them
    \* the batch server (server.js) and its channels to and from s1
    toServer, toClient, inflight, relayed,
    tempFile,      \* the chunk held by temp_audio.webm, NoFile if the file does not exist
    nSession, nInput, nRaw

dgVars == <<connections, live, nLive, nAudio, nResults>>
musicVars == <<audioLevelHistory, suppressTranscription, monitoring, nSample>>
lexVars == <<probe>>
queueVars == <<audioChunks>>
clientVars == <<useWhisper, whisperReady, isRecording, recognition, mediaRecorder,
                mediaStream, hasAudio, pending, interim, transcriptArea, transcriptions, statusEvents,
                errorSeen, musicVars, lexVars, queueVars>>
serverVars == <<toServer, toClient, inflight, tempFile, relayed>>
countVars == <<nSession, nInput, nRaw>>
whVars == <<clientVars, serverVars, countVars>>
vars == <<sockets, inbox, dgVars, whVars>>

\* ------------------------------------------------------------------ events
NoField == "-"

\* One Socket.IO event.  socketId / provider / speaker / isFinal are the payload
\* fields of that name (NoField: the payload has no such field; isFinal is
\* "final" or "interim"); seg names the transcript segment or audio chunk the
\* payload came from.
Ev(type, socketId, provider, isFinal, speaker, seg) ==
    [type |-> type, socketId |-> socketId, provider |-> provider,
     isFinal |-> isFinal, speaker |-> speaker, seg |-> seg, text |-> NoField,
     shape |-> NoField]

Status(type) == Ev(type, NoField, NoField, NoField, NoField, 0)

Connected == {s \in Sockets : sockets[s] = "connected"}

Emit_Everyone(box, s, ev) ==
    [t \in Sockets |-> IF t \in Connected THEN box[t] (+) SetToBag({ev}) ELSE box[t]]

\* socket.emit(ev): to this socket only
Emit(box, s, ev) == [box EXCEPT ![s] = @ (+) SetToBag({ev})]

\* socket.broadcast.emit(ev): every connected socket but the sender
BroadcastEmit(box, s, ev) ==
    [t \in Sockets |-> IF t \in Connected /\ t # s THEN box[t] (+) SetToBag({ev}) ELSE box[t]]

\* io.emit(ev): every connected socket
IoEmit(box, ev) ==
    [t \in Sockets |-> IF t \in Connected THEN box[t] (+) SetToBag({ev}) ELSE box[t]]

\* ------------------------------------------------- DeepgramService (deepgram.js)
NewConnection(socketId) ==
    [owner |-> socketId, readyState |-> CONNECTING, errored |-> FALSE,
     finishCalls |-> 0, sent |-> <<>>, offered |-> <<>>, early |-> <<>>,
     stopAsked |-> FALSE]

\* createLiveConnection: this.connections.set(socketId, connection), whatever the
\* map held for socketId before.
createLiveConnection(cs, socketId, c) == [cs EXCEPT ![socketId] = c]

\* sendAudioData: forwards to the registered connection when it is open; an
\* exception out of connection.send is caught and logged.
sendAudioData(cs, lv, socketId, chunk, sendThrows) ==
    LET c == cs[socketId] IN
    IF c # NoConn /\ lv[c].readyState = OPEN /\ ~sendThrows
    THEN [lv EXCEPT ![c].sent = Append(@, chunk)]
    ELSE lv

\* closeConnection: finish() and the delete share one try block, so the delete is
\* skipped when finish() throws.
closeConnection(cs, lv, socketId, finishThrows) ==
    LET c == cs[socketId] IN
    IF c = NoConn
    THEN [connections |-> cs, live |-> lv]
    ELSE [connections |-> IF finishThrows THEN cs ELSE [cs EXCEPT ![socketId] = NoConn],
          live |-> [lv EXCEPT ![c].finishCalls = @ + 1]]

\* connection.on('close'): this.connections.delete(socketId), by socket id
onClose(cs, socketId) == [cs EXCEPT ![socketId] = NoConn]

getActiveConnections == {s \in Sockets : connections[s] # NoConn}

\* ------------------------------------------------------- part_000 handlers
\* The module binds the service as `deepgram` (part_000:19); the 'audio-data'
\* handler calls `deepgramService.sendAudioData` (part_000:105).
BoundServiceNames == {"deepgram"}
AudioDataCallee == "deepgramService"

Created == {c \in ConnIds : live[c].readyState # ABSENT}

\* io.on('connection')
Connect(s) ==
    /\ sockets[s] = "new"
    /\ sockets' = [sockets EXCEPT ![s] = "connected"]
    /\ UNCHANGED <<inbox, dgVars, whVars>>

\* socket.on('start-screen-share')
OnStartScreenShare(s) ==
    /\ s \in Sharers
    /\ sockets[s] = "connected"
    /\ nLive < MaxConn
    /\ nLive' = nLive + 1
    /\ \E liveThrows \in BOOLEAN :
         IF liveThrows
         THEN /\ inbox' = BroadcastEmit(Emit(inbox, s, Status("deepgram-error")), s,
                     Ev("screen-share-started", s, NoField, NoField, NoField, 0))
              /\ UNCHANGED <<connections, live>>
         ELSE /\ live' = [live EXCEPT ![nLive + 1] = NewConnection(s)]
              /\ connections' = createLiveConnection(connections, s, nLive + 1)
              /\ inbox' = BroadcastEmit(Emit(inbox, s, Status("deepgram-ready")), s,
                     Ev("screen-share-started", s, NoField, NoField, NoField, 0))
    /\ UNCHANGED <<sockets, nAudio, nResults, whVars>>

\* socket.on('audio-data'): chunk nAudio[s]+1 of this socket arrives; an empty or
\* missing payload is logged and dropped.
OnAudioData(s) ==
    /\ s \in Sharers
    /\ sockets[s] = "connected"
    /\ nAudio[s] < MaxChunks
    /\ nAudio' = [nAudio EXCEPT ![s] = @ + 1]
    /\ \E empty \in BOOLEAN, sendThrows \in BOOLEAN :
         LET chunk == nAudio[s] + 1
             c == connections[s]
             streaming == c # NoConn /\ live[c].readyState = OPEN
             requesting == c # NoConn /\ live[c].readyState = CONNECTING
             noted == IF streaming /\ ~empty
                      THEN [live EXCEPT ![c].offered = Append(@, chunk)]
                      ELSE IF requesting /\ ~empty
                      THEN [live EXCEPT ![c].early = Append(@, chunk)]
                      ELSE live
         IN IF empty
            THEN /\ live' = noted
                 /\ UNCHANGED inbox
            ELSE IF AudioDataCallee \in BoundServiceNames
                 THEN /\ live' = sendAudioData(connections, noted, s, chunk, sendThrows)
                      /\ UNCHANGED inbox
                 ELSE \* ReferenceError, caught by the handler's try block
                      /\ live' = noted
                      /\ inbox' = Emit(inbox, s,
                             Ev("deepgram-error", NoField, NoField, NoField, NoField, chunk))
    /\ UNCHANGED <<sockets, connections, nLive, nResults, whVars>>

\* The user stops the screen share of a streaming session (stopScreenShare,
\* app_with_deepgram.js:457-501, app.js:451-500).  The client sends the server
\* nothing, and part_000 registers no handler for a stop message (its handlers
\* are start-screen-share, audio-data, transcription, error and disconnect):
\* the server does nothing.  stopAsked notes that the stop happened.
OnStopScreenShare(s) ==
    /\ s \in Sharers
    /\ sockets[s] = "connected"
    /\ connections[s] # NoConn
    /\ live[connections[s]].readyState = OPEN
    /\ ~live[connections[s]].stopAsked
    /\ live' = [live EXCEPT ![connections[s]].stopAsked = TRUE]
    /\ UNCHANGED <<sockets, inbox, connections, nLive, nAudio, nResults, whVars>>

\* socket.on('disconnect')
OnDisconnect(s) ==
    /\ sockets[s] = "connected"
    /\ sockets' = [sockets EXCEPT ![s] = "disconnected"]
    /\ \E finishThrows \in BOOLEAN :
         LET r == closeConnection(connections, live, s, finishThrows) IN
         /\ connections' = r.connections
         /\ live' = r.live
    /\ inbox' = BroadcastEmit(inbox, s,
           Ev("screen-share-stopped", s, NoField, NoField, NoField, 0))
    /\ UNCHANGED <<nLive, nAudio, nResults, whVars>>

\* connection.on('open')
ConnOpen(c) ==
    /\ c \in Created
    /\ live[c].readyState = CONNECTING
    /\ live' = [live EXCEPT ![c].readyState = OPEN]
    /\ UNCHANGED <<sockets, inbox, connections, nLive, nAudio, nResults, whVars>>

\* connection.on('error'): logged
ConnError(c) ==
    /\ c \in Created
    /\ live[c].readyState # CLOSED
    /\ ~live[c].errored
    /\ live' = [live EXCEPT ![c].errored = TRUE]
    /\ UNCHANGED <<sockets, inbox, connections, nLive, nAudio, nResults, whVars>>

\* connection.on('close')
ConnClose(c) ==
    /\ c \in Created
    /\ live[c].readyState # CLOSED
    /\ live' = [live EXCEPT ![c].readyState = CLOSED]
    /\ connections' = onClose(connections, live[c].owner)
    /\ UNCHANGED <<sockets, inbox, nLive, nAudio, nResults, whVars>>

\* deepgram.setTranscriptionCallback (part_000:22-31)
TranscriptionCallback(box, data) ==
    LET toTarget == IF data.socketId \in Connected
                    THEN Emit(box, data.socketId, [data EXCEPT !.type = "deepgram-transcription"])
                    ELSE box
    IN IoEmit(toTarget, data)

\* connection.on('Results'): a result with a blank transcript is skipped
ConnResults(c) ==
    /\ c \in Created
    /\ live[c].readyState = OPEN
    /\ nResults < MaxResults
    /\ nResults' = nResults + 1
    /\ \E isFinal \in {"final", "interim"}, blank \in BOOLEAN :
         IF blank
         THEN UNCHANGED inbox
         ELSE inbox' = TranscriptionCallback(inbox,
                  Ev("new-transcription", live[c].owner, "deepgram", isFinal, NoField,
                     nResults + 1))
    /\ UNCHANGED <<sockets, connections, live, nLive, nAudio, whVars>>

\* new DeepgramService() (deepgram.js:5-11): no connection yet
ServiceInit ==
    /\ connections = [s \in Sockets |-> NoConn]
    /\ live = [c \in ConnIds |-> [NewConnection("s1") EXCEPT !.readyState = ABSENT]]
    /\ nLive = 0
    /\ nAudio = [s \in Sockets |-> 0]
    /\ nResults = 0

\* new ScreenAudioToText() (app.js:43-70); the constructor's
\* initializeSpeechRecognition leaves recognition null in a browser without the
\* Web Speech API.
\* No text has been classified yet.
NoProbe == [asked |-> FALSE, text |-> <<>>, music |-> FALSE, speaker |-> NoField]

ClientInit(supported) ==
    /\ useWhisper = TRUE
    /\ whisperReady = FALSE
    /\ isRecording = FALSE
    /\ recognition = IF supported THEN "idle" ELSE "none"
    /\ mediaRecorder = "null"
    /\ mediaStream = FALSE
    /\ hasAudio = FALSE
    /\ pending = 0
    /\ interim = NoField
    /\ transcriptArea = <<>>
    /\ transcriptions = <<>>
    /\ statusEvents = <<>>
    /\ errorSeen = FALSE
    /\ audioLevelHistory = <<>>
    /\ suppressTranscription = FALSE
    /\ monitoring = 0
    /\ nSample = 0
    /\ probe = NoProbe
    /\ audioChunks = <<>>

\* No chunk: temp_audio.webm does not exist, a read stream has read nothing.
NoFile == 0

ChannelInit ==
    /\ toServer = <<>>
    /\ toClient = <<>>
    /\ inflight = {}
    /\ tempFile = NoFile
    /\ relayed = {}
    /\ nSession = 0
    /\ nInput = 0
    /\ nRaw = 0

InitDG ==
    /\ sockets = [s \in Sockets |-> "new"]
    /\ inbox = [s \in Sockets |-> EmptyBag]
    /\ ServiceInit
    /\ ClientInit(TRUE)
    /\ ChannelInit

NextDG ==
    \/ \E s \in Sockets : Connect(s)
    \/ \E s \in Sockets : OnStartScreenShare(s)
    \/ \E s \in Sockets : OnAudioData(s)
    \/ \E s \in Sockets : OnStopScreenShare(s)
    \/ \E s \in Sockets : OnDisconnect(s)
    \/ \E c \in ConnIds : ConnOpen(c)
    \/ \E c \in ConnIds : ConnError(c)
    \/ \E c \in ConnIds : ConnClose(c)
    \/ \E c \in ConnIds : ConnResults(c)

SpecDG == InitDG /\ [][NextDG]_vars

\* The handlers of part_000 that send events to clients, with the provider
\* events that enable them.  connection.on('error') and connection.on('close')
\* send nothing and only take possibilities away from the handlers that send.
NextEmit ==
    \/ \E s \in Sockets : Connect(s)
    \/ \E s \in Sockets : OnStartScreenShare(s)
    \/ \E s \in Sockets : OnAudioData(s)
    \/ \E s \in Sockets : OnDisconnect(s)
    \/ \E c \in ConnIds : ConnOpen(c)
    \/ \E c \in ConnIds : ConnResults(c)

SpecEmit == InitDG /\ [][NextEmit]_vars

\* SpecTeardown is SpecDG with the server taking every step it can take.  The
\* provider's 'error' and 'close' events may never come.
SpecTeardown == InitDG /\ [][NextDG]_vars /\ WF_vars(NextEmit)

\* ------------------------------------------------------------ session state
\* Streaming: the registry holds a connection for the socket and it is open.
Streaming(s) == connections[s] # NoConn /\ live[connections[s]].readyState = OPEN

\* The provider connections of socket s that are opening or open.
ActiveConns(s) ==
    {c \in Created : live[c].owner = s /\ live[c].readyState \in {CONNECTING, OPEN}}

TranscriptTypes == {"deepgram-transcription", "new-transcription", "whisper-transcription"}
Transcripts(s) == {e \in BagToSet(inbox[s]) : e.type \in TranscriptTypes}

\* ===================================================== the batch (Whisper) path
\* SpecRelay models the batch server server.js with clients that are not app.js
\* (ARCHITECTURE.md, "Integration via API"): they may send the server any
\* 'transcription' or 'audio-data' message.  The Whisper API is the environment.
\*
\* SpecWhisper models the browser client app.js on socket s1 together with
\* server.js; socket s2 runs a second app.js whose recogniser delivers finals.
\* The browser (the user's clicks, the recogniser, the recorder, the health
\* check's answer) is the environment.

MaxSessions == 1    \* screen shares the user starts
MaxInputs == 2      \* recorder chunks, recogniser results and finals of the
                    \* other socket's app.js, taken together
MaxRaw == 2         \* messages the clients of SpecRelay send

Me == "s1"
Peer == "s2"

\* ---- detectSpeaker (app.js:610-624)
UpperCase == <<"A", "B", "C", "D", "E", "F", "G", "H", "I", "J", "K", "L", "M", "N", "O", "P", "Q", "R", "S", "T", "U", "V", "W", "X", "Y", "Z">>
LowerCase == <<"a", "b", "c", "d", "e", "f", "g", "h", "i", "j", "k", "l", "m", "n", "o", "p", "q", "r", "s", "t", "u", "v", "w", "x", "y", "z">>

toLowerCase(text) ==
    [i \in 1..Len(text) |->
        IF \E k \in 1..Len(UpperCase) : UpperCase[k] = text[i]
        THEN LowerCase[CHOOSE k \in 1..Len(UpperCase) : UpperCase[k] = text[i]]
        ELSE text[i]]

includes(text, word) ==
    \E i \in 1..(Len(text) - Len(word) + 1) : SubSeq(text, i, i + Len(word) - 1) = word

questionWords ==
    {<<"a", "p", "a">>,
     <<"b", "a", "g", "a", "i", "m", "a", "n", "a">>,
     <<"m", "e", "n", "g", "a", "p", "a">>,
     <<"k", "e", "n", "a", "p", "a">>,
     <<"s", "i", "a", "p", "a">>,
     <<"d", "i", "m", "a", "n", "a">>,
     <<"k", "a", "p", "a", "n">>,
     <<"w", "h", "a", "t">>,
     <<"h", "o", "w">>,
     <<"w", "h", "y">>,
     <<"w", "h", "o">>,
     <<"w", "h", "e", "r", "e">>,
     <<"w", "h", "e", "n">>,
     <<"c", "a", "n", " ", "y", "o", "u">>,
     <<"c", "o", "u", "l", "d", " ", "y", "o", "u">>,
     <<"t", "e", "l", "l", " ", "m", "e">>,
     <<"e", "x", "p", "l", "a", "i", "n">>,
     <<"d", "e", "s", "c", "r", "i", "b", "e">>,
     <<"c", "e", "r", "i", "t", "a", "k", "a", "n">>,
     <<"j", "e", "l", "a", "s", "k", "a", "n">>}

detectSpeaker_CaseSensitive(text) ==
    LET hasQuestionMark == includes(text, <<"?">>)
        hasQuestionWord == \E word \in questionWords : includes(text, word)
    IN IF hasQuestionMark \/ hasQuestionWord THEN "INTERVIEWER" ELSE "SPEAKER"

detectSpeaker(text) ==
    LET lowerText == toLowerCase(text)
        hasQuestionMark == includes(text, <<"?">>)
        hasQuestionWord == \E word \in questionWords : includes(lowerText, word)
    IN IF hasQuestionMark \/ hasQuestionWord THEN "INTERVIEWER" ELSE "SPEAKER"

SpeakerRoles == {"INTERVIEWER", "SPEAKER"}

\* ---- isLikelyMusic (app.js:579-608, app_with_deepgram.js:580-609)
Digits == {"0", "1", "2", "3", "4", "5", "6", "7", "8", "9"}
IsLetter(c) == \E k \in 1..Len(LowerCase) : c = LowerCase[k] \/ c = UpperCase[k]
IsWhitespace(c) == c = " "
IsWordChar(c) == IsLetter(c) \/ c \in Digits \/ c = "_"

RECURSIVE trimStart(_)
trimStart(s) == IF s # <<>> /\ IsWhitespace(Head(s)) THEN trimStart(Tail(s)) ELSE s

RECURSIVE trimEnd(_)
trimEnd(s) ==
    IF s # <<>> /\ IsWhitespace(s[Len(s)]) THEN trimEnd(SubSeq(s, 1, Len(s) - 1)) ELSE s

trim(s) == trimEnd(trimStart(s))

\* s.split(/\s+/): the pieces between runs of whitespace.
RECURSIVE splitFrom(_, _, _)
splitFrom(s, i, piece) ==
    IF i > Len(s) THEN <<piece>>
    ELSE IF IsWhitespace(s[i])
    THEN IF i < Len(s) /\ IsWhitespace(s[i + 1])
         THEN splitFrom(s, i + 1, piece)
         ELSE <<piece>> \o splitFrom(s, i + 1, <<>>)
    ELSE splitFrom(s, i + 1, Append(piece, s[i]))

split(s) == splitFrom(s, 1, <<>>)

Syllables == {<<"l", "a">>, <<"n", "a">>, <<"d", "a">>, <<"y", "a">>, <<"o", "h">>, <<"a", "h">>, <<"m", "m">>, <<"h", "m">>}
Fillers == {<<"y", "e", "a", "h">>, <<"o", "h">>, <<"a", "h">>, <<"n", "a">>, <<"l", "a">>}

\* /^(la|na|da|ya|oh|ah|mm|hm)+$/i
NonsenseSyllables(s) ==
    /\ Len(s) >= 2
    /\ Len(s) % 2 = 0
    /\ \A k \in 1..(Len(s) \div 2) : toLowerCase(SubSeq(s, 2 * k - 1, 2 * k)) \in Syllables

\* /^[a-z\s]{1,3}$/i
VeryShort(s) == Len(s) \in 1..3 /\ \A i \in 1..Len(s) : IsLetter(s[i]) \/ IsWhitespace(s[i])

\* \bword\b at position i of s
WordAt(s, word, i) ==
    /\ i + Len(word) - 1 <= Len(s)
    /\ toLowerCase(SubSeq(s, i, i + Len(word) - 1)) = word
    /\ (i = 1 \/ ~IsWordChar(s[i - 1]))
    /\ (i + Len(word) > Len(s) \/ ~IsWordChar(s[i + Len(word)]))

\* /\b(yeah|oh|ah|na|la)\b.*\b(yeah|oh|ah|na|la)\b/i
RepeatedExpressions(s) ==
    \E first \in Fillers, i \in 1..Len(s) :
        /\ WordAt(s, first, i)
        /\ \E second \in Fillers, j \in (i + Len(first))..Len(s) : WordAt(s, second, j)

\* /^[\s\-\.\,]*$/
OnlyPunctuation(s) == \A i \in 1..Len(s) : s[i] \in {" ", "-", ".", ","}

Range(s) == {s[i] : i \in 1..Len(s)}

\* The check of app.js:598-605: more than two words, under half of them unique.
Repetitive(s) ==
    LET words == split(s)
    IN Len(words) > 2 /\ 2 * Cardinality(Range(words)) < Len(words)

isLikelyMusic(text) ==
    LET lowerText == trim(toLowerCase(text))
    IN \/ NonsenseSyllables(lowerText)
       \/ VeryShort(lowerText)
       \/ RepeatedExpressions(lowerText)
       \/ OnlyPunctuation(lowerText)
       \/ Repetitive(lowerText)

\* What is said in the call: events carry the name of a text.
TextNames == {"t1", "t2", "t3"}
TextOf(name) ==
    IF name = "t1" THEN <<"H", "a", "l", "o", " ", "s", "e", "m", "u", "a">>
    ELSE IF name = "t2" THEN <<"S", "i", "a", "p", "a", " ", "A", "n", "d", "a", "?">>
    ELSE <<"l", "a", " ", "l", "a", " ", "l", "a">>

\* The label detectSpeaker gives each text.
speakerOf == [name \in TextNames |-> detectSpeaker(TextOf(name))]

\* Whether isLikelyMusic takes each text for music.
musicOf == [name \in TextNames |-> isLikelyMusic(TextOf(name))]

\* ---- payloads
\* {...first, ...second}: a field present in second overrides the one of first.
\* The event name is not part of the payload.
Spread(first, second) ==
    [f \in DOMAIN first |->
        IF f = "type" THEN first[f]
        ELSE IF f = "seg" THEN (IF second[f] # 0 THEN second[f] ELSE first[f])
        ELSE IF second[f] # NoField THEN second[f] ELSE first[f]]

Named(type, data) == [data EXCEPT !.type = type]
OnlySocketId(s) == Ev(NoField, s, NoField, NoField, NoField, 0)

\* The 'audio-data' payload of app.js is the plain object {audio, timestamp}.
AudioShapes == {"buffer", "object"}
AudioData(chunk, shape) ==
    [Ev("audio-data", NoField, NoField, NoField, NoField, chunk) EXCEPT !.shape = shape]

\* Buffer.isBuffer / .buffer / Buffer.from (server.js:93-100): Buffer.from of an
\* object that is no buffer, has no length and no buffer field throws TypeError.
ConversionThrows(audioData) == audioData.shape = "object"

\* The payload of the 'whisper-transcription' event (server.js:109-117).
WhisperTranscription(chunk, text) ==
    [Ev("whisper-transcription", NoField, "whisper", "final", NoField, chunk)
        EXCEPT !.text = text]

\* The object recognition.onresult builds for a final result (app.js:213-220).
transcriptionData(seg, text) ==
    [Ev(NoField, NoField, "web-speech-api", "final", speakerOf[text], seg)
        EXCEPT !.text = text]

\* ---- delivery: inbox logs every event a socket was sent; toClient holds the
\* ones the app.js of s1 has not handled yet.
Deliver(targets, ev) ==
    /\ inbox' = [t \in Sockets |->
                    IF t \in targets THEN inbox[t] (+) SetToBag({ev}) ELSE inbox[t]]
    /\ toClient' = IF Me \in targets THEN Append(toClient, ev) ELSE toClient

Others(s) == Connected \ {s}

\* ----------------------------------------------------------- server.js handlers
\* socket.on('start-screen-share') (server.js:73-86)
ServerStartScreenShare(s) ==
    LET ready == Status("whisper-ready")
        started == Ev("screen-share-started", s, NoField, NoField, NoField, 0)
    IN /\ inbox' = [t \in Sockets |->
                       IF t = s THEN inbox[t] (+) SetToBag({ready})
                       ELSE IF t \in Others(s) THEN inbox[t] (+) SetToBag({started})
                       ELSE inbox[t]]
       /\ toClient' = IF s = Me THEN Append(toClient, ready)
                      ELSE IF Me \in Others(s) THEN Append(toClient, started)
                      ELSE toClient
       /\ UNCHANGED <<inflight, tempFile, relayed>>

\* socket.on('audio-data') up to the await of the Whisper request
\* (server.js:88-103, 120-123): transcribeWithWhisper writes the chunk to the
\* one temp file of the process and attaches a read stream of that file to the
\* request (server.js:37-47); the stream is read after the handler has yielded.
ServerAudioData(s, audioData) ==
    IF ConversionThrows(audioData)
    THEN /\ Deliver({s}, [Status("whisper-error") EXCEPT !.seg = audioData.seg,
                                                          !.text = "TypeError"])
         /\ UNCHANGED <<inflight, tempFile, relayed>>
    ELSE /\ tempFile' = audioData.seg
         /\ inflight' = inflight \cup {[socketId |-> s, seg |-> audioData.seg, body |-> NoFile]}
         /\ UNCHANGED <<inbox, toClient, relayed>>

\* socket.on('transcription') (server.js:134-142, part_002:47-55)
NewTranscription(s, data) == Named("new-transcription", Spread(OnlySocketId(s), data))

ServerTranscription(s, data) ==
    /\ Deliver(Others(s), NewTranscription(s, data))
    /\ relayed' = relayed \cup {[sender |-> s, event |-> NewTranscription(s, data)]}
    /\ UNCHANGED <<inflight, tempFile>>

\* socket.on('stop-screen-share') (server.js:126-132, part_002:39-45): the
\* other clients are told; nothing is recorded about the socket.
ScreenShareStopped(s, data) == Named("screen-share-stopped", Spread(OnlySocketId(s), data))

ServerStopScreenShare(s, data) ==
    /\ Deliver(Others(s), ScreenShareStopped(s, data))
    /\ relayed' = relayed \cup {[sender |-> s, event |-> ScreenShareStopped(s, data)]}
    /\ UNCHANGED <<inflight, tempFile>>

\* The server takes the next message of app.js off the socket.
OnClientMessage ==
    /\ toServer # <<>>
    /\ toServer' = Tail(toServer)
    /\ LET m == Head(toServer) IN
         CASE m.type = "start-screen-share" -> ServerStartScreenShare(Me)
           [] m.type = "audio-data" -> ServerAudioData(Me, m)
           [] OTHER -> ServerTranscription(Me, m)
    /\ UNCHANGED <<sockets, dgVars, clientVars, countVars>>

\* A client sends audio, as a binary buffer or as a plain object.
RawAudioData(s) ==
    /\ nRaw < MaxRaw
    /\ nRaw' = nRaw + 1
    /\ \E shape \in AudioShapes : ServerAudioData(s, AudioData(nRaw + 1, shape))
    /\ UNCHANGED <<sockets, dgVars, clientVars, toServer, nSession, nInput>>

\* A client asks to stop its screen share; the payload is an empty object.
RawStopScreenShare(s) ==
    /\ nRaw < MaxRaw
    /\ nRaw' = nRaw + 1
    /\ ServerStopScreenShare(s, Ev(NoField, NoField, NoField, NoField, NoField, nRaw + 1))
    /\ UNCHANGED <<sockets, dgVars, clientVars, toServer, nSession, nInput>>

\* The payloads a client can put in a 'transcription' message: any JSON object,
\* so with or without a socketId or provider field of its own.
RawPayloads ==
    {[Ev(NoField, sid, provider, "final", "SPEAKER", nRaw + 1) EXCEPT !.text = "t1"] :
        sid \in {NoField} \cup Sockets, provider \in {NoField, "web-speech-api"}}

RawTranscription(s) ==
    /\ nRaw < MaxRaw
    /\ nRaw' = nRaw + 1
    /\ \E data \in RawPayloads : ServerTranscription(s, data)
    /\ UNCHANGED <<sockets, dgVars, clientVars, toServer, nSession, nInput>>

\* The read stream of a request (server.js:42) opens temp_audio.webm and reads
\* what the file holds by then; if the file is gone the stream fails with
\* ENOENT, the request is rejected and the handler's catch reports it
\* (server.js:63-66, 120-123).
ReadTempFile ==
    /\ \E r \in inflight :
         /\ r.body = NoFile
         /\ IF tempFile = NoFile
            THEN /\ inflight' = inflight \ {r}
                 /\ Deliver({r.socketId},
                        [Status("whisper-error") EXCEPT !.seg = r.seg, !.text = "ENOENT"])
            ELSE /\ inflight' = (inflight \ {r}) \cup {[r EXCEPT !.body = tempFile]}
                 /\ UNCHANGED <<inbox, toClient>>
    /\ UNCHANGED <<sockets, dgVars, clientVars, toServer, tempFile, relayed, countVars>>

\* The Whisper request of a chunk ends (server.js:47-61, 103-123): a text or an
\* empty text for the audio that was posted, after which the temp file is
\* unlinked, or an error (refused, timeout, HTTP error), which leaves the file.
WhisperResponse ==
    /\ \E r \in inflight :
         /\ inflight' = inflight \ {r}
         /\ \E outcome \in {"text", "blank", "error"}, text \in TextNames :
              /\ outcome # "error" => r.body # NoFile
              /\ tempFile' = IF outcome = "error" THEN tempFile ELSE NoFile
              /\ CASE outcome = "text" ->
                     Deliver({r.socketId}, WhisperTranscription(r.seg, text))
                [] outcome = "error" ->
                     Deliver({r.socketId}, [Status("whisper-error") EXCEPT !.seg = r.seg])
                [] OTHER -> UNCHANGED <<inbox, toClient>>
    /\ UNCHANGED <<sockets, dgVars, clientVars, toServer, relayed, countVars>>

InitRelay ==
    /\ sockets = [s \in Sockets |-> "connected"]
    /\ inbox = [s \in Sockets |-> EmptyBag]
    /\ ServiceInit
    /\ ClientInit(TRUE)
    /\ ChannelInit

NextRelay ==
    \/ \E s \in Sockets : RawAudioData(s)
    \/ \E s \in Sockets : RawTranscription(s)
    \/ \E s \in Sockets : RawStopScreenShare(s)
    \/ ReadTempFile
    \/ WhisperResponse

SpecRelay == InitRelay /\ [][NextRelay]_vars

\* ------------------------------------------------------------------- app.js
\* initializeSpeechRecognition (app.js:183-243): a new recogniser, if the
\* browser has one.
initializeSpeechRecognition(rec) == IF rec = "none" THEN "none" ELSE "idle"

\* addTranscription (app.js:668-680)
addTranscription(list, data) == Append(list, data)

\* ---- the transcript element.  A child is the interim display (id
\* 'interim-display') or the entry of a final.
\* clearInterimDisplay (app.js:880-885): getElementById finds the first element
\* of that id, which is removed.
clearInterimDisplay(area) ==
    LET found == {i \in 1..Len(area) : area[i].id = "interim-display"} IN
    IF found = {} THEN area
    ELSE LET first == CHOOSE i \in found : \A j \in found : i <= j
         IN SubSeq(area, 1, first - 1) \o SubSeq(area, first + 1, Len(area))

showInterimTranscription_Append(area, text) ==
    Append(area, [id |-> "interim-display", text |-> text])

\* showInterimTranscription (app.js:838-878)
showInterimTranscription(area, text) ==
    Append(clearInterimDisplay(area), [id |-> "interim-display", text |-> text])

\* The display part of addTranscription (app.js:679-717)
transcriptEntry(area, data) ==
    Append(clearInterimDisplay(area), [id |-> NoField, text |-> data.text])

\* startScreenShare (app.js:254-334) with the part of startRecording before its
\* await (app.js:336-344); a denied capture changes nothing.
startScreenShare(maxSessions) ==
    /\ ~mediaStream
    /\ nSession < maxSessions
    /\ nSession' = nSession + 1
    /\ \E audioTracks \in BOOLEAN : hasAudio' = audioTracks
    /\ mediaStream' = TRUE
    /\ pending' = pending + 1
    /\ errorSeen' = FALSE
    /\ toServer' = Append(toServer, Status("start-screen-share"))
    /\ UNCHANGED <<useWhisper, whisperReady, isRecording, recognition, mediaRecorder,
                   interim, transcriptArea, transcriptions, statusEvents>>
    /\ UNCHANGED <<sockets, inbox, dgVars, toClient, inflight, tempFile, relayed, nInput, nRaw>>
    /\ UNCHANGED <<musicVars, lexVars, queueVars>>

StartScreenShare == startScreenShare(MaxSessions)

\* startRecording after checkServerHealth has answered (app.js:344-386).  With
\* the stream gone meanwhile, getAudioTracks of null ends the function.
\* initializeAudioAnalysis (app.js:502-522) starts a monitor loop if the stream
\* has an audio track to analyse; the loop's first frame goes on only if
\* isRecording is set by then.  A loop that is running already is left alone.
HealthResult ==
    /\ pending > 0
    /\ pending' = pending - 1
    /\ \E ready \in BOOLEAN :
         IF ready
         THEN /\ whisperReady' = TRUE
              /\ useWhisper' = TRUE
              /\ mediaRecorder' = IF mediaStream /\ hasAudio THEN "recording" ELSE mediaRecorder
              /\ isRecording' = IF mediaStream /\ hasAudio THEN TRUE ELSE isRecording
              /\ monitoring' = IF mediaStream /\ hasAudio THEN monitoring + 1 ELSE monitoring
              /\ audioChunks' = IF mediaStream /\ hasAudio THEN <<>> ELSE audioChunks
              /\ UNCHANGED recognition
         ELSE /\ whisperReady' = FALSE
              /\ useWhisper' = FALSE
              /\ recognition' = IF initializeSpeechRecognition(recognition) = "none"
                                THEN "none" ELSE "running"
              /\ isRecording' = IF recognition # "none" \/ (mediaStream /\ hasAudio)
                                THEN TRUE ELSE isRecording
              /\ monitoring' = IF /\ mediaStream /\ hasAudio
                                   /\ (recognition # "none" \/ isRecording)
                                THEN monitoring + 1 ELSE monitoring
              /\ UNCHANGED <<mediaRecorder, audioChunks>>
    /\ UNCHANGED <<mediaStream, hasAudio, interim, transcriptArea, transcriptions, statusEvents, errorSeen>>
    /\ UNCHANGED <<audioLevelHistory, suppressTranscription, nSample, lexVars>>
    /\ UNCHANGED <<sockets, inbox, dgVars, serverVars, countVars>>

\* mediaRecorder.ondataavailable (app.js:792-806)
MediaChunk ==
    /\ mediaRecorder = "recording"
    /\ nInput < MaxInputs
    /\ nInput' = nInput + 1
    /\ audioChunks' = Append(audioChunks, nInput + 1)
    /\ toServer' = Append(toServer, AudioData(nInput + 1, "object"))
    /\ UNCHANGED <<useWhisper, whisperReady, isRecording, recognition, mediaRecorder,
                   mediaStream, hasAudio, pending, interim, transcriptArea, transcriptions, statusEvents,
                   errorSeen, musicVars, lexVars>>
    /\ UNCHANGED <<sockets, inbox, dgVars, toClient, inflight, tempFile, relayed,
                   nSession, nRaw>>

\* recognition.onresult with one result (app.js:203-238)
RecognitionResult ==
    /\ recognition = "running"
    /\ nInput < MaxInputs
    /\ nInput' = nInput + 1
    /\ \E isFinal \in BOOLEAN, text \in TextNames :
         IF useWhisper /\ whisperReady
         THEN UNCHANGED <<interim, transcriptArea, transcriptions, toServer>>
         ELSE IF isFinal
         THEN /\ interim' = NoField
              /\ transcriptArea' = transcriptEntry(clearInterimDisplay(transcriptArea),
                                                   transcriptionData(nInput + 1, text))
              /\ transcriptions' = addTranscription(transcriptions, transcriptionData(nInput + 1, text))
              /\ toServer' = Append(toServer, Named("transcription", transcriptionData(nInput + 1, text)))
         ELSE /\ interim' = IF Len(TextOf(text)) > 1 THEN text ELSE interim
              /\ transcriptArea' = IF Len(TextOf(text)) > 1
                                   THEN showInterimTranscription(transcriptArea, text)
                                   ELSE transcriptArea
              /\ UNCHANGED <<transcriptions, toServer>>
    /\ UNCHANGED <<useWhisper, whisperReady, isRecording, recognition, mediaRecorder,
                   mediaStream, hasAudio, pending, statusEvents, errorSeen>>
    /\ UNCHANGED <<sockets, inbox, dgVars, toClient, inflight, tempFile, relayed, nSession, nRaw>>
    /\ UNCHANGED <<musicVars, lexVars, queueVars>>

\* stopScreenShare (app.js:451-500).  Stopping a recording MediaRecorder makes
\* it hand over what it still holds, if anything, after audioChunks was reset
\* (app.js:486).  Nothing is sent to the server.
StopScreenShare ==
    /\ mediaStream
    /\ \E lastChunk \in BOOLEAN :
         IF lastChunk /\ useWhisper /\ mediaRecorder = "recording" /\ nInput < MaxInputs
         THEN /\ nInput' = nInput + 1
              /\ toServer' = Append(toServer, AudioData(nInput + 1, "object"))
              /\ audioChunks' = <<nInput + 1>>
         ELSE /\ audioChunks' = <<>>
              /\ UNCHANGED <<nInput, toServer>>
    /\ recognition' = IF recognition # "none" /\ isRecording THEN "idle" ELSE recognition
    /\ isRecording' = IF recognition # "none" /\ isRecording THEN FALSE ELSE isRecording
    /\ mediaStream' = FALSE
    /\ useWhisper' = FALSE
    /\ whisperReady' = FALSE
    /\ mediaRecorder' = "null"
    /\ errorSeen' = FALSE
    /\ UNCHANGED <<hasAudio, pending, interim, transcriptArea, transcriptions, statusEvents>>
    /\ UNCHANGED <<sockets, inbox, dgVars, toClient, inflight, tempFile, relayed, nSession, nRaw>>
    /\ UNCHANGED <<musicVars, lexVars>>

\* socket.on('whisper-ready') (app.js:106-110)
OnWhisperReady ==
    /\ toClient # <<>> /\ Head(toClient).type = "whisper-ready"
    /\ toClient' = Tail(toClient)
    /\ whisperReady' = TRUE
    /\ statusEvents' = Append(statusEvents, "whisper-ready")
    /\ UNCHANGED <<useWhisper, isRecording, recognition, mediaRecorder, mediaStream,
                   hasAudio, pending, interim, transcriptArea, transcriptions, errorSeen>>
    /\ UNCHANGED <<sockets, inbox, dgVars, toServer, inflight, tempFile, relayed, countVars>>
    /\ UNCHANGED <<musicVars, lexVars, queueVars>>

\* Both socket.on('whisper-error') handlers (app.js:112-115, 147-164).  start()
\* of a recogniser that is already running throws InvalidStateError.
OnWhisperError ==
    /\ toClient # <<>> /\ Head(toClient).type = "whisper-error"
    /\ toClient' = Tail(toClient)
    /\ statusEvents' = Append(statusEvents, "whisper-error")
    /\ errorSeen' = mediaStream
    /\ LET rec == IF recognition = "none" THEN initializeSpeechRecognition(recognition)
                  ELSE recognition
       IN IF rec # "none" /\ ~isRecording /\ rec # "running"
          THEN recognition' = "running" /\ isRecording' = TRUE
          ELSE recognition' = rec /\ UNCHANGED isRecording
    /\ UNCHANGED <<useWhisper, whisperReady, mediaRecorder, mediaStream, hasAudio,
                   pending, interim, transcriptArea, transcriptions>>
    /\ UNCHANGED <<sockets, inbox, dgVars, toServer, inflight, tempFile, relayed, countVars>>
    /\ UNCHANGED <<musicVars, lexVars, queueVars>>

\* socket.on('new-transcription') (app.js:167-172)
OnNewTranscription ==
    /\ toClient # <<>> /\ Head(toClient).type = "new-transcription"
    /\ toClient' = Tail(toClient)
    /\ IF Head(toClient).provider = "web-speech-api"
       THEN /\ transcriptions' = addTranscription(transcriptions, Head(toClient))
            /\ interim' = NoField
            /\ transcriptArea' = transcriptEntry(transcriptArea, Head(toClient))
       ELSE UNCHANGED <<transcriptions, interim, transcriptArea>>
    /\ UNCHANGED <<useWhisper, whisperReady, isRecording, recognition, mediaRecorder,
                   mediaStream, hasAudio, pending, statusEvents, errorSeen>>
    /\ UNCHANGED <<sockets, inbox, dgVars, toServer, inflight, tempFile, relayed, countVars>>
    /\ UNCHANGED <<musicVars, lexVars, queueVars>>

\* The app.js of the other socket sends the final of its recogniser
\* (app.js:213-227) and the server relays it.
PeerTranscription ==
    /\ nInput < MaxInputs
    /\ nInput' = nInput + 1
    /\ \E text \in TextNames :
         ServerTranscription(Peer, Named("transcription", transcriptionData(nInput + 1, text)))
    /\ UNCHANGED <<sockets, dgVars, clientVars, toServer, nSession, nRaw>>

\* The page is loaded and both sockets are connected (app.js:44, server.js:70).
InitWhisper ==
    /\ sockets = [s \in Sockets |-> "connected"]
    /\ inbox = [s \in Sockets |-> EmptyBag]
    /\ ServiceInit
    /\ \E supported \in BOOLEAN : ClientInit(supported)
    /\ ChannelInit

NextWhisper ==
    \/ StartScreenShare
    \/ HealthResult
    \/ MediaChunk
    \/ RecognitionResult
    \/ StopScreenShare
    \/ OnWhisperReady
    \/ OnWhisperError
    \/ OnNewTranscription
    \/ OnClientMessage
    \/ PeerTranscription

SpecWhisper == InitWhisper /\ [][NextWhisper]_vars

\* Nothing is on its way between app.js, the server and the Whisper API.
Quiescent == toServer = <<>> /\ toClient = <<>> /\ inflight = {} /\ pending = 0

\* The session of app.js streams through the Web Speech fallback: the
\* recogniser runs and its results are not discarded.
FallbackStreaming == mediaStream /\ recognition = "running" /\ ~(useWhisper /\ whisperReady)

\* ========================================================== music detection
\* SpecMusic models the audio monitor of app.js: startAudioMonitoring samples
\* the analyser on every animation frame while isRecording is set, and
\* detectMusic decides suppressTranscription from the last samples.  The
\* analyser's readings are the environment.

MaxSamples == 6     \* frames on which the monitor takes a sample

\* musicScore is kept as a number of bins, that is in units of
\* 1/frequencyBinCount, avgFreq in whole units of the analyser's byte scale; the
\* means are compared after multiplying by the window's length.  The quotients
\* count/1024 and their sums are exact in floating point, and (3584/1024)/5
\* rounds to the double that the literal 0.7 denotes.
musicThreshold == 7         \* this.musicThreshold = 0.7, in tenths
FrequencyThreshold == 50
MusicWindow == 5
HistoryLimit == 10

fftSize == 2048
\* analyser.frequencyBinCount (app.js:525): half the FFT size
frequencyBinCount == fftSize \div 2

HighBand_UpperHalf == frequencyBinCount - (frequencyBinCount * 5) \div 10

\* dataArray.slice(bufferLength * 0.6): slice truncates its argument, the band
\* runs from bin trunc(0.6 * bufferLength) to the last bin.
HighBand == frequencyBinCount - (frequencyBinCount * 6) \div 10

\* dataArray.slice(0, bufferLength * 0.3): the bins below trunc(0.3 * bufferLength)
LowBand == (frequencyBinCount * 3) \div 10

\* .filter(v => v > 100): a bin counts when its magnitude is above this level
LoudLevel == 100
MaxLevel == 255             \* getByteFrequencyData fills a Uint8Array

\* What one getByteFrequencyData call delivers, as far as monitor looks at it:
\* the number of bins above LoudLevel in each band and the mean magnitude of
\* all bins.  The three depend on each other: a counted bin holds more than
\* LoudLevel, an uncounted bin of a band at most LoudLevel, no bin more than
\* MaxLevel.
Feasible(r) ==
    LET counted == r.highFreqCount + r.lowFreqCount IN
    /\ r.highFreqCount \in 0..HighBand
    /\ r.lowFreqCount \in 0..LowBand
    /\ r.avgFreq * frequencyBinCount >= (LoudLevel + 1) * counted
    /\ r.avgFreq * frequencyBinCount
          <= MaxLevel * (frequencyBinCount - (HighBand + LowBand - counted))
               + LoudLevel * (HighBand + LowBand - counted)

\* Loud music over the whole spectrum, the same with one bin of the upper band
\* at or below the level, and a quiet room.
Samples ==
    {r \in {[highFreqCount |-> HighBand, lowFreqCount |-> LowBand, avgFreq |-> 90],
            [highFreqCount |-> HighBand - 1, lowFreqCount |-> LowBand, avgFreq |-> 90],
            [highFreqCount |-> 0, lowFreqCount |-> 0, avgFreq |-> 10]} : Feasible(r)}

\* const musicScore = (highFreqCount + lowFreqCount) / bufferLength, as the
\* number of bins
MusicScore(r) == r.highFreqCount + r.lowFreqCount

RECURSIVE SumScore(_)
SumScore(h) == IF h = <<>> THEN 0 ELSE Head(h).musicScore + SumScore(Tail(h))

RECURSIVE SumFreq(_)
SumFreq(h) == IF h = <<>> THEN 0 ELSE Head(h).avgFreq + SumFreq(Tail(h))

\* detectMusic with a window that is one sample short.
detectMusic_ShortWindow(history) ==
    IF Len(history) < MusicWindow - 1 THEN FALSE
    ELSE LET recent == SubSeq(history, Len(history) - MusicWindow + 2, Len(history))
         IN /\ 10 * SumScore(recent) > musicThreshold * frequencyBinCount * Len(recent)
            /\ SumFreq(recent) > FrequencyThreshold * Len(recent)

\* detectMusic (app.js:567-577)
detectMusic(history) ==
    IF Len(history) < MusicWindow THEN FALSE
    ELSE LET recent == SubSeq(history, Len(history) - MusicWindow + 1, Len(history))
         IN /\ 10 * SumScore(recent) > musicThreshold * frequencyBinCount * Len(recent)
            /\ SumFreq(recent) > FrequencyThreshold * Len(recent)

pushSample_Pop(history, sample) ==
    LET pushed == Append(history, sample)
    IN IF Len(pushed) > HistoryLimit THEN SubSeq(pushed, 1, HistoryLimit) ELSE pushed

\* audioLevelHistory.push(...) and the shift that keeps the last ten
\* (app.js:541-550)
pushSample(history, sample) ==
    LET pushed == Append(history, sample)
    IN IF Len(pushed) > HistoryLimit THEN Tail(pushed) ELSE pushed

\* One frame of a monitor loop (app.js:528-562): it ends that loop when
\* isRecording is not set, and otherwise pushes a sample, keeps the last ten,
\* sets the flag and asks for the next frame.
\* The timestamp of a sample is the number of the frame.
MonitorFrame(samples, maxFrames) ==
    /\ monitoring >= 1
    /\ \/ /\ ~isRecording
          /\ monitoring' = monitoring - 1
          /\ UNCHANGED <<audioLevelHistory, suppressTranscription, nSample>>
       \/ /\ isRecording
          /\ nSample < maxFrames
          /\ nSample' = nSample + 1
          /\ \E sample \in samples :
               LET kept == pushSample(audioLevelHistory,
                              [musicScore |-> MusicScore(sample), avgFreq |-> sample.avgFreq,
                               timestamp |-> nSample + 1])
               IN /\ audioLevelHistory' = kept
                  /\ suppressTranscription' = detectMusic(kept)
          /\ UNCHANGED monitoring
    /\ UNCHANGED <<useWhisper, whisperReady, isRecording, recognition, mediaRecorder,
                   mediaStream, hasAudio, pending, interim, transcriptArea, transcriptions, statusEvents,
                   errorSeen, lexVars, queueVars>>
    /\ UNCHANGED <<sockets, inbox, dgVars, serverVars, countVars>>

Monitor == MonitorFrame(Samples, MaxSamples)

NextMusic ==
    \/ StartScreenShare
    \/ HealthResult
    \/ StopScreenShare
    \/ Monitor

SpecMusic == InitWhisper /\ [][NextMusic]_vars

\* SpecHistory runs the monitor for more frames than the history keeps, on the
\* frames of a quiet recording.
MaxFrames == 11     \* frames on which the monitor of SpecHistory takes a sample

QuietSamples == {r \in Samples : MusicScore(r) = 0}

MonitorQuiet == MonitorFrame(QuietSamples, MaxFrames)

NextHistory ==
    \/ StartScreenShare
    \/ HealthResult
    \/ StopScreenShare
    \/ MonitorQuiet

SpecHistory == InitWhisper /\ [][NextHistory]_vars

\* SpecRestart lets the user share, stop and share again, with the monitor
\* running on the frames of a quiet recording.
MaxRestarts == 2    \* screen shares the user of SpecRestart starts

StartScreenShareAgain == startScreenShare(MaxRestarts)

NextRestart ==
    \/ StartScreenShareAgain
    \/ HealthResult
    \/ StopScreenShare
    \/ MonitorQuiet

SpecRestart == InitWhisper /\ [][NextRestart]_vars

\* SpecFilter puts the audio monitor next to the recogniser of app.js: what
\* recognition.onresult does with a result while the monitor's flag is set.
NextFilter ==
    \/ StartScreenShare
    \/ HealthResult
    \/ StopScreenShare
    \/ Monitor
    \/ RecognitionResult

SpecFilter == InitWhisper /\ [][NextFilter]_vars

\* ====================================================== the lexical filters
\* SpecLexical applies isLikelyMusic and detectSpeaker to one transcript, as
\* recognition.onresult of app_with_deepgram.js does (106-120).  The transcript
\* is the input; transcripts hold no line terminators.

MaxWords == 3       \* words of a generated transcript

Tokens ==
    {<<"l", "a">>,
     <<"o", "h">>,
     <<"l", "a", "l", "a">>,
     <<"a">>,
     <<"?", "!">>,
     <<"-">>,
     <<"g", "o">>,
     <<"A", "p", "a">>}

ExampleTexts ==
    {<<"T", "h", "e", " ", "s", "y", "s", "t", "e", "m", " ", "s", "c", "a", "l", "e", "s", " ", "w", "e", "l", "l">>,
     <<"A", "p", "a", " ", "i", "t", "u", "?">>,
     <<"S", "a", "y", "a", " ", "s", "e", "t", "u", "j", "u", ".">>,
     <<"H", "a", "l", "o", " ", "d", "u", "n", "i", "a">>,
     <<" ", "l", "a", " ">>,
     <<"h", "o", "w">>}

RECURSIVE join(_)
join(words) ==
    IF Len(words) = 1 THEN words[1] ELSE words[1] \o <<" ">> \o join(Tail(words))

LexTexts ==
    ExampleTexts \cup {join(words) : words \in UNION {[1..n -> Tokens] : n \in 1..MaxWords}}

Classify ==
    /\ ~probe.asked
    /\ \E text \in LexTexts :
         probe' = [asked |-> TRUE, text |-> text, music |-> isLikelyMusic(text),
                   speaker |-> detectSpeaker(text)]
    /\ UNCHANGED <<sockets, inbox, dgVars, serverVars, countVars>>
    /\ UNCHANGED <<useWhisper, whisperReady, isRecording, recognition, mediaRecorder,
                   mediaStream, hasAudio, pending, interim, transcriptArea, transcriptions, statusEvents,
                   errorSeen, musicVars, queueVars>>

NextLexical == Classify

SpecLexical == InitRelay /\ [][NextLexical]_vars

\* ============================================ app.js with the streaming server
\* SpecEcho models app.js on socket s1 served by part_000, which serves the
\* same public directory (part_000:38; ARCHITECTURE.md names public/app.js as
\* the client) and whose 'transcription' handler is the one kept for the Web
\* Speech fallback (part_000:117).  The Whisper health check of app.js asks
\* the Whisper service, not this server.

\* The payload part_000 broadcasts for a 'transcription' message
\* (part_000:127-131): {...data, socketId: socket.id, provider: 'web-speech-api'}.
LegacyTranscription(s, data) ==
    [data EXCEPT !.type = "new-transcription", !.socketId = s, !.provider = "web-speech-api"]

\* part_000 takes the next message of app.js off the socket.
\*   'start-screen-share' (80-94): as OnStartScreenShare; app.js has no handler
\*      for 'deepgram-ready' or 'deepgram-error'.
\*   'audio-data' (97-115): the payload {audio, timestamp} of app.js has neither
\*      size nor length and is logged as empty.
\*   'transcription' (118-132): io.emit to every client, the sender included.
StreamingServerMessage ==
    /\ toServer # <<>>
    /\ toServer' = Tail(toServer)
    /\ LET m == Head(toServer) IN
         CASE m.type = "start-screen-share" ->
                /\ nLive < MaxConn
                /\ nLive' = nLive + 1
                /\ \E liveThrows \in BOOLEAN :
                     IF liveThrows
                     THEN /\ inbox' = BroadcastEmit(Emit(inbox, Me, Status("deepgram-error")), Me,
                                 Ev("screen-share-started", Me, NoField, NoField, NoField, 0))
                          /\ UNCHANGED <<connections, live>>
                     ELSE /\ live' = [live EXCEPT ![nLive + 1] = NewConnection(Me)]
                          /\ connections' = createLiveConnection(connections, Me, nLive + 1)
                          /\ inbox' = BroadcastEmit(Emit(inbox, Me, Status("deepgram-ready")), Me,
                                 Ev("screen-share-started", Me, NoField, NoField, NoField, 0))
                /\ UNCHANGED <<toClient, nAudio>>
           [] m.type = "audio-data" ->
                /\ nAudio' = [nAudio EXCEPT ![Me] = @ + 1]
                /\ UNCHANGED <<inbox, toClient, connections, live, nLive>>
           [] OTHER ->
                /\ inbox' = IoEmit(inbox, LegacyTranscription(Me, m))
                /\ toClient' = IF Me \in Connected
                               THEN Append(toClient, LegacyTranscription(Me, m))
                               ELSE toClient
                /\ UNCHANGED <<connections, live, nLive, nAudio>>
    /\ UNCHANGED <<sockets, nResults, clientVars, inflight, tempFile, relayed, countVars>>

NextEcho ==
    \/ StartScreenShare
    \/ HealthResult
    \/ MediaChunk
    \/ RecognitionResult
    \/ StopScreenShare
    \/ OnNewTranscription
    \/ StreamingServerMessage

SpecEcho == InitWhisper /\ [][NextEcho]_vars

\* ================================== recognition.onresult of app_with_deepgram.js
\* SpecSpeech hands the results of a speech recogniser to the onresult handler
\* that app_with_deepgram.js registers (88-138).  The recogniser is the
\* environment; confidences are in hundredths.
NoConfidence == -1          \* the alternative carries no confidence
Confidences == {NoConfidence, 0, 30, 50, 70, 90}

\* if (confidence && confidence < 0.5): undefined and 0 are falsy
lowConfidence(confidence) ==
    confidence # NoConfidence /\ confidence # 0 /\ confidence < 50

\* The object onresult builds for a final (app_with_deepgram.js:114-121), with
\* confidence: confidence || 0.
speechData(seg, text, confidence) ==
    LET data == transcriptionData(seg, text)
    IN [f \in DOMAIN data \cup {"confidence"} |->
           IF f = "confidence"
           THEN (IF confidence = NoConfidence THEN 0 ELSE confidence)
           ELSE data[f]]

\* getElementById('interim-result') and remove(), as showInterimResult and
\* addTranscription do first (app_with_deepgram.js:668-672, 710-714)
removeInterimResult(area) ==
    LET found == {i \in 1..Len(area) : area[i].id = "interim-result"} IN
    IF found = {} THEN area
    ELSE LET first == CHOOSE i \in found : \A j \in found : i <= j
         IN SubSeq(area, 1, first - 1) \o SubSeq(area, first + 1, Len(area))

\* showInterimResult (app_with_deepgram.js:667-707)
showInterimResult(area, text) ==
    Append(removeInterimResult(area), [id |-> "interim-result", text |-> text])

\* recognition.onresult with one result (app_with_deepgram.js:88-138)
SpeechResult ==
    /\ nInput < MaxInputs
    /\ nInput' = nInput + 1
    /\ \E confidence \in Confidences, isFinal \in BOOLEAN, text \in TextNames :
         IF suppressTranscription \/ lowConfidence(confidence)
         THEN UNCHANGED <<interim, transcriptArea, transcriptions, toServer>>
         ELSE IF isFinal
         THEN IF musicOf[text]
              THEN UNCHANGED <<interim, transcriptArea, transcriptions, toServer>>
              ELSE LET data == speechData(nInput + 1, text, confidence) IN
                   /\ toServer' = Append(toServer, Named("transcription", data))
                   /\ transcriptions' = Append(transcriptions, data)
                   /\ transcriptArea' = Append(removeInterimResult(transcriptArea),
                                               [id |-> NoField, text |-> text])
                   /\ interim' = NoField
         ELSE IF Len(trim(TextOf(text))) > 2 /\ ~musicOf[text]
              THEN /\ transcriptArea' = showInterimResult(transcriptArea, text)
                   /\ interim' = text
                   /\ UNCHANGED <<transcriptions, toServer>>
              ELSE UNCHANGED <<interim, transcriptArea, transcriptions, toServer>>
    /\ UNCHANGED <<useWhisper, whisperReady, isRecording, recognition, mediaRecorder,
                   mediaStream, hasAudio, pending, statusEvents, errorSeen>>
    /\ UNCHANGED <<sockets, inbox, dgVars, toClient, inflight, tempFile, relayed, nSession, nRaw>>
    /\ UNCHANGED <<musicVars, lexVars, queueVars>>

NextSpeech == SpeechResult

SpecSpeech == InitRelay /\ [][NextSpeech]_vars

\* ------------------------------------------------------------------ claims

\* C1: every non-empty chunk that reached the server while the session was
\* Streaming has been forwarded to its connection exactly once and in arrival
\* order: what was sent on a connection is what was offered to it.
C1_ForwardedInOrder == \A c \in Created : live[c].sent = live[c].offered

\* C2: a socket never has more than one provider connection opening or open.
C2_AtMostOneProviderConnection == \A s \in Sockets : Cardinality(ActiveConns(s)) <= 1

\* C3: a final segment that a provider produced and the server delivered to the
\* socket it came from has also been broadcast to every other connected socket,
\* as a 'new-transcription' event with the provider kind and a speaker role.
C3_FinalsDeliveredAndBroadcast ==
    \A s \in Sockets : \A e \in BagToSet(inbox[s]) :
        e.type = "whisper-transcription"
        => \A t \in Others(s) : \E b \in BagToSet(inbox[t]) :
               /\ b.type = "new-transcription"
               /\ b.seg = e.seg
               /\ b.provider = "whisper"
               /\ b.speaker \in SpeakerRoles

\* C4: an interim transcript event reaches only the socket whose connection
\* produced it.
C4_InterimOnlyToOrigin ==
    \A s \in Sockets : \A e \in Transcripts(s) : e.isFinal = "interim" => e.socketId = s

\* C5: every 'new-transcription' event the server has broadcast carries, as its
\* socketId, the id of the socket that sent the 'transcription' message.
C5_AttributedToSender == \A r \in relayed : r.event.socketId = r.sender

\* C6: in the first session of app.js, once the Whisper health check has failed
\* and the session streams through the Web Speech fallback with nothing left in
\* flight, the client has handled exactly one provider error event followed by
\* exactly one provider ready event.
C6_OneErrorThenOneReady ==
    (nSession = 1 /\ ~useWhisper /\ FallbackStreaming /\ Quiescent)
    => statusEvents = <<"whisper-error", "whisper-ready">>

\* C7: once app.js has handled a provider error in a running session and the
\* browser has a speech recogniser, the session streams through the fallback:
\* the recogniser runs and its results are accepted.
C7_FailoverToFallback ==
    (errorSeen /\ mediaStream /\ recognition # "none") => FallbackStreaming

\* C8: whenever a provider connection of a still connected socket has failed or
\* closed, that socket was sent an error or closed status event.
C8_StatusEventOnFailure ==
    \A c \in Created :
        (live[c].errored \/ live[c].readyState = CLOSED) /\ live[c].owner \in Connected
        => \E e \in BagToSet(inbox[live[c].owner]) :
               e.type \in {"deepgram-error", "connection-closed"}

\* C9: a disconnect of a Streaming session calls finish() on its connection, for
\* the first and only time, and leaves the registry without an entry for it.
C9_DisconnectWhileStreaming ==
    [][\A s \in Sockets :
         (sockets[s] = "connected" /\ sockets'[s] = "disconnected" /\ Streaming(s))
         => /\ connections'[s] = NoConn
            /\ live'[connections[s]].finishCalls = 1]_vars

\* C10: closing the provider of a session twice is the same as closing it once:
\* the second closeConnection calls finish() no further time and changes nothing.
C10_CloseIdempotent ==
    \A s \in Sockets : \A t1 \in BOOLEAN, t2 \in BOOLEAN :
        LET once == closeConnection(connections, live, s, t1)
            twice == closeConnection(once.connections, once.live, s, t2)
        IN twice = once

\* C11: suppressTranscription is set exactly when at least five samples exist
\* and, over the five most recent ones, the mean musicScore is above 0.7 and the
\* mean avgFreq is above 50.
C11_SuppressIffMusic ==
    LET h == audioLevelHistory
        n == Len(h)
    IN suppressTranscription <=>
         /\ n >= 5
         /\ 10 * (h[n-4].musicScore + h[n-3].musicScore + h[n-2].musicScore
                   + h[n-1].musicScore + h[n].musicScore) > 5 * 7 * 1024
         /\ h[n-4].avgFreq + h[n-3].avgFreq + h[n-2].avgFreq
              + h[n-1].avgFreq + h[n].avgFreq > 5 * 50

\* Five samples of musicScore 717/1024 and avgFreq 90 have been taken and the flag
\* is set.
C11_Witness ==
    /\ Len(audioLevelHistory) = 5
    /\ \A i \in 1..5 :
         audioLevelHistory[i].musicScore = 717 /\ audioLevelHistory[i].avgFreq = 90
    /\ suppressTranscription

\* C12: while suppressTranscription is set, no step adds a segment to the
\* transcript list, shows one as the interim line, or emits a 'transcription'
\* message to the server.
C12_SuppressedSegmentsDropped ==
    [][suppressTranscription
       => /\ transcriptions' = transcriptions
          /\ interim' \in {interim, NoField}
          /\ \/ toServer' = toServer
             \/ toServer'[Len(toServer')].type # "transcription"]_vars

\* C13: isLikelyMusic answers true exactly for a text that is made of filler
\* syllables only, or is one to three letters, or holds two words of the filler
\* set, or consists of punctuation and whitespace only, or has several words of
\* which fewer than half are distinct.
C13_MusicLikeExactly ==
    probe.asked =>
        LET s == trim(toLowerCase(probe.text))
            words == split(s)
        IN probe.music <=>
             \/ NonsenseSyllables(s)
             \/ (Len(s) \in 1..3 /\ \A i \in 1..Len(s) : IsLetter(s[i]))
             \/ RepeatedExpressions(s)
             \/ \A i \in 1..Len(s) : ~IsLetter(s[i]) /\ s[i] \notin Digits
             \/ (Len(words) > 1 /\ 2 * Cardinality(Range(words)) < Len(words))

\* C14: a final segment whose text isLikelyMusic takes for music is never
\* added to the transcript list nor sent to the server, whatever the value of
\* suppressTranscription.
C14_MusicLikeFinalDiscarded ==
    /\ \A i \in 1..Len(transcriptions) : ~musicOf[transcriptions[i].text]
    /\ \A i \in 1..Len(toServer) :
         toServer[i].type = "transcription" => ~musicOf[toServer[i].text]

\* C15: detectSpeaker labels a text INTERVIEWER exactly when it holds a question
\* mark or, compared without regard to case, one of the question keywords, and
\* SPEAKER otherwise; "Apa itu?" is labelled INTERVIEWER, "Saya setuju." and
\* "Halo dunia" SPEAKER.
C15_InterviewerIffQuestion ==
    probe.asked =>
        LET text == probe.text
            SameLetter(a, b) ==
                \/ a = b
                \/ \E k \in 1..Len(LowerCase) : {a, b} = {LowerCase[k], UpperCase[k]}
            Holds(word) ==
                \E i \in 1..Len(text) :
                    /\ i + Len(word) - 1 <= Len(text)
                    /\ \A k \in 1..Len(word) : SameLetter(text[i + k - 1], word[k])
            question == (\E i \in 1..Len(text) : text[i] = "?") \/ (\E word \in questionWords : Holds(word))
        IN /\ probe.speaker = IF question THEN "INTERVIEWER" ELSE "SPEAKER"
           /\ text = <<"A", "p", "a", " ", "i", "t", "u", "?">> => probe.speaker = "INTERVIEWER"
           /\ text = <<"S", "a", "y", "a", " ", "s", "e", "t", "u", "j", "u", ".">> => probe.speaker = "SPEAKER"
           /\ text = <<"H", "a", "l", "o", " ", "d", "u", "n", "i", "a">> => probe.speaker = "SPEAKER"

C15_Witness ==
    /\ probe.asked
    /\ probe.text = <<"A", "p", "a", " ", "l", "a">>
    /\ probe.speaker = "INTERVIEWER"

\* C16: the chunks that arrive while the provider connection of a session is
\* requested and not yet open are kept, and once the connection is open they
\* have been forwarded to the provider, in the order of their arrival, ahead of
\* every later chunk.
C16_EarlyChunksFlushed ==
    \A c \in Created :
        live[c].readyState = OPEN =>
            /\ Len(live[c].early) <= Len(live[c].sent)
            /\ SubSeq(live[c].sent, 1, Len(live[c].early)) = live[c].early

\* C17: once a socket has asked to stop its screen share, no audio chunk that
\* arrives from it afterwards is handed to the provider, and no transcript of
\* such a chunk is sent.
C17_NoAudioAfterStop ==
    \A stop \in relayed :
        stop.event.type = "screen-share-stopped" =>
            /\ \A r \in inflight :
                 r.socketId = stop.sender => r.seg < stop.event.seg
            /\ \A ev \in BagToSet(inbox[stop.sender]) :
                 ev.type = "whisper-transcription" => ev.seg < stop.event.seg

\* C18: the audio posted to the provider for a chunk is the audio of that
\* chunk, whatever other chunks are being handled at the same time, and no
\* request fails because of another one.
C18_SessionsIndependent ==
    /\ \A r \in inflight : r.body \in {NoFile, r.seg}
    /\ \A s \in Sockets : \A ev \in BagToSet(inbox[s]) : ev.text # "ENOENT"

\* C19: handling an audio chunk of a streaming session never ends or changes
\* the session, whether or not the chunk could be sent: the registered provider
\* connection and its ready state stay as they are, and no error event is sent
\* to the client for the chunk.
C19_SendFailureAbsorbed ==
    [][\A s \in Sharers :
          (nAudio'[s] = nAudio[s] + 1 /\ Streaming(s)) =>
              /\ connections' = connections
              /\ live'[connections[s]].readyState = live[connections[s]].readyState
              /\ inbox'[s] = inbox[s]]_vars

\* C20: the audio queue of a session has a fixed capacity: however many chunks
\* the recorder hands over, here MaxInputs of them, the queue stays shorter,
\* the chunk that finds it full being dropped.
C20_AudioQueueBounded == Len(audioChunks) < MaxInputs

\* C21: the ready and error status events of a session reach the socket of
\* that session only: a socket that never started a session has received none,
\* while it does receive what is broadcast.
C21_StatusOnlyToOrigin ==
    \A t \in Sockets \ Sharers :
        \A ev \in BagToSet(inbox[t]) : ev.type \notin {"deepgram-ready", "deepgram-error"}

C21_Witness ==
    /\ \E ev \in BagToSet(inbox["s1"]) : ev.type = "deepgram-ready"
    /\ \E ev \in BagToSet(inbox["s1"]) : ev.type = "deepgram-error"
    /\ \E ev \in BagToSet(inbox["s2"]) : ev.type = "screen-share-started"

\* C22: the transcript element shows at most one interim display, and it is
\* the last child: a new interim takes the place of the one before, a final
\* removes it, and no entry of a final ever follows an interim.
C22_OneInterim ==
    \A i \in 1..Len(transcriptArea) :
        transcriptArea[i].id = "interim-display" => i = Len(transcriptArea)

C22_Witness ==
    /\ Len(transcriptArea) = 2
    /\ transcriptArea[1].id = NoField
    /\ transcriptArea[2].id = "interim-display"

\* C23: audioLevelHistory never holds more than ten samples, and what it
\* holds are the most recent samples, oldest first: after n samples it holds
\* the samples n-9..n (all n of them while n is at most ten).
C23_LastTenSamples ==
    LET h == audioLevelHistory IN
    /\ Len(h) <= 10
    /\ Len(h) = IF nSample < 10 THEN nSample ELSE 10
    /\ \A i \in 1..Len(h) : h[i].timestamp = nSample - Len(h) + i

C23_Witness ==
    /\ nSample = 11
    /\ Len(audioLevelHistory) = 10
    /\ audioLevelHistory[1].timestamp = 2
    /\ audioLevelHistory[10].timestamp = 11

\* C24: once the user of a streaming session has stopped the screen share,
\* finish() has been called on the provider connection of that session and,
\* with the socket still connected, the registry holds it no longer.
C24_StopFinishesConnection ==
    \A c \in Created :
        (live[c].stopAsked /\ sockets[live[c].owner] = "connected") =>
            /\ live[c].finishCalls >= 1
            /\ connections[live[c].owner] # c

\* C25: a provider connection on which finish() was called for teardown is
\* eventually out of the registry, whether or not finish() raised and whether
\* or not the provider ever signals 'close'.
C25_TeardownCompletes ==
    \A c \in ConnIds :
        (live[c].finishCalls >= 1) ~> (connections[live[c].owner] # c)

\* C26: the registry holds no provider connection that has closed or that has
\* failed with an error; the session of such a connection is not Streaming.
C26_RegistryHoldsNoDeadConnection ==
    \A c \in Created :
        (live[c].readyState = CLOSED \/ live[c].errored) => connections[live[c].owner] # c

\* C27: whenever the server sends a socket the ready event of its provider,
\* the provider connection registered for that socket is open.
C27_ReadyOnlyWhenOpen ==
    [][\A s \in Sockets :
          CopiesIn(Status("deepgram-ready"), inbox'[s]) > CopiesIn(Status("deepgram-ready"), inbox[s])
          => /\ connections'[s] # NoConn
             /\ live'[connections'[s]].readyState = OPEN]_vars

\* C28: once the session has seen its provider fail, no further audio chunk of
\* the session is sent to that provider.
C28_NoAudioToFailedProvider ==
    [][(errorSeen /\ Len(toServer') > Len(toServer))
       => toServer'[Len(toServer')].type # "audio-data"]_vars

\* C29: when the Whisper provider is unavailable or has failed and the browser
\* has no speech recognition to fall back to, the session is over: the client
\* does not count as recording and its recorder sends no audio.
C29_ExhaustedProvidersEndSession ==
    (/\ mediaStream
     /\ pending = 0
     /\ recognition = "none"
     /\ (~whisperReady \/ errorSeen))
    => (~isRecording /\ mediaRecorder # "recording")

\* C30: a malformed audio chunk is dropped without a word to the client: the
\* server sends no provider error for it.
C30_MalformedChunkDropped ==
    \A s \in Sockets : \A ev \in BagToSet(inbox[s]) :
        ev.type = "whisper-error" => ev.text # "TypeError"

\* C31: a final segment is recorded exactly once by the client it came from:
\* the transcript list of app.js holds no two entries of the same segment,
\* whether the entry came from the recogniser or from the server.
C31_RecordedOnce ==
    \A i \in 1..Len(transcriptions) : \A j \in 1..Len(transcriptions) :
        transcriptions[i].seg = transcriptions[j].seg => i = j

\* C32: once the screen share has been stopped, the speech recogniser is not
\* started again before the user starts the next share: no step starts the
\* recogniser while no captured stream is held.
C32_NoStartAfterStop ==
    [][(nSession >= 1 /\ ~mediaStream /\ recognition # "running")
       => recognition' # "running"]_vars

\* C33: while a session records a stream that has audio, the audio monitor
\* runs: a frame of the monitor is due, so that the next sample will be taken
\* and the flag set anew.
C33_MonitorRunsWhileRecording ==
    (isRecording /\ mediaStream /\ hasAudio /\ pending = 0) => monitoring >= 1

\* C34: at most one monitor loop is active at any time, whatever starts and
\* stops came before.
C34_OneMonitorLoop == monitoring <= 1

\* C35: a session begins with the classifier in its initial state: when the
\* user starts a screen share, audioLevelHistory is empty and
\* suppressTranscription is not set, whatever the session before left.
C35_ClassifierStateFresh ==
    [][nSession' = nSession + 1
       => (audioLevelHistory' = <<>> /\ ~suppressTranscription')]_vars

\* C36: for a connected socket the registry holds the most recently created
\* provider connection of that socket that has not closed, so the 'close' of an
\* older connection leaves the entry of a newer one alone; and once a socket
\* has disconnected, finish() has been called on every provider connection
\* created for it that has not closed by itself.
C36_RegistryHoldsLatest ==
    \A s \in Sockets :
        LET alive == {c \in Created : live[c].owner = s /\ live[c].readyState # CLOSED}
        IN /\ (sockets[s] = "connected" /\ alive # {})
              => connections[s] = CHOOSE c \in alive : \A d \in alive : d <= c
           /\ sockets[s] = "disconnected"
              => \A c \in alive : live[c].finishCalls >= 1

\* C37: once a socket has asked to stop its screen share, the server sends it
\* no transcript any more, not even the one of a chunk that it received before
\* the stop and whose transcription ends after it.
C37_NoTranscriptAfterEnd ==
    [][\A stop \in relayed :
          stop.event.type = "screen-share-stopped" =>
              \A ev \in BagToSet(inbox'[stop.sender]) :
                  (/\ ev.type = "whisper-transcription"
                   /\ ev.seg < stop.event.seg)
                  => CopiesIn(ev, inbox'[stop.sender]) = CopiesIn(ev, inbox[stop.sender])]_vars

\* C38: with 1024 bins the musicScore of a sample is a number of bins over
\* 1024 that never exceeds 717/1024, and suppressTranscription is set only when
\* each of the five most recent samples has that highest score, every bin of
\* both bands being above 100.
C38_ScoreAtMost717 ==
    LET h == audioLevelHistory
        n == Len(h)
    IN /\ \A i \in 1..n : h[i].musicScore \in 0..717
       /\ suppressTranscription =>
            /\ n >= 5
            /\ \A i \in (n - 4)..n : h[i].musicScore = 717

\* A sample one bin short of the highest score was followed by five samples
\* of the highest score, and the flag is set.
C38_Witness ==
    /\ Len(audioLevelHistory) = 6
    /\ audioLevelHistory[1].musicScore = 716
    /\ \A i \in 2..6 : audioLevelHistory[i].musicScore = 717
    /\ suppressTranscription

\* C39: no result of a confidence below 0.5, a confidence of 0 or a missing one
\* included, is added to the transcript list or sent to the server.
C39_LowConfidenceDropped ==
    /\ \A i \in 1..Len(transcriptions) : transcriptions[i].confidence >= 50
    /\ \A i \in 1..Len(toServer) : toServer[i].confidence >= 50

====
